---- MODULE Spec2Model ----
(***************************************************************************)
(* A model of the threat-intel-digest collection pipeline:                 *)
(*   fetcher.py          ThreatIntelFetcher (feed reader and aggregator)   *)
(*   twitter_fetcher.py  TwitterFetcher (mirror-pool social reader)        *)
(*   summarizer.py       ThreatIntelSummarizer (remote summary)            *)
(*   app_with_scheduler.py, app.py  generate_digest and the read API       *)
(*   scheduler.py        DigestScheduler (daily trigger)                   *)
(*                                                                         *)
(* Python values are represented as follows.                               *)
(*   dict            a function whose DOMAIN is the set of keys present    *)
(*   list            a sequence                                            *)
(*   str             a TLA+ string; a string the code scans character by   *)
(*                   character (a list spec) is a sequence of 1-character  *)
(*                   strings                                               *)
(*   None            None ("None") where a string may stand, NoTime (<<>>) *)
(*                   where a time tuple may stand                          *)
(*   a call          a record [exc, val, calls]: exc is TRUE when the call *)
(*                   raised, val is what it returned, calls is the list of *)
(*                   URLs it handed to feedparser.parse, in order          *)
(***************************************************************************)
EXTENDS Integers, Sequences, FiniteSets, TLC

VARIABLES
    fetcher,    \* the ThreatIntelFetcher object: its attributes
    web,        \* what feedparser.parse answers for each URL
    op,         \* the last operation called, with its arguments
    ret,        \* the outcome of that call: [exc, val, calls]
    remote,     \* what the remote model endpoint answers to requests.post
    store,      \* the digest directory: a file for each file name
    clock,      \* the local time datetime.now() reads
    threads,    \* each thread's place inside generate_digest, and its locals
    runs,       \* the calls of the digest function so far, in order
    persisted,  \* the runs that wrote their record, in the order they ended
    sched,      \* the DigestScheduler object
    fired       \* how many times the daily time has come

vars == <<fetcher, web, op, ret, remote, store, clock, threads, runs, persisted, sched, fired>>

\* the state of the application around the fetcher
appvars == <<remote, store, clock, threads, runs, persisted, sched, fired>>

----------------------------------------------------------------------------
(* Bounds of the model *)

\* the longest list of entries a feed serves with entries of mixed shape
MaxEntries == 2

\* the largest per-source cap tried (the smallest is -1)
MaxCap == 2

----------------------------------------------------------------------------
(* Python primitives *)

None == "None"

NoTime == << >>

Min(a, b) == IF a <= b THEN a ELSE b

Max(a, b) == IF a >= b THEN a ELSE b

\* s[:n + 1]: a slice that keeps one entry too many
SliceTo_one_more(s, n) ==
    IF n + 1 >= 0 THEN SubSeq(s, 1, Min(n + 1, Len(s)))
    ELSE SubSeq(s, 1, Max(Len(s) + n + 1, 0))

\* s[:n]
SliceTo(s, n) ==
    IF n >= 0 THEN SubSeq(s, 1, Min(n, Len(s)))
    ELSE SubSeq(s, 1, Max(Len(s) + n, 0))

\* d.get(key, default)
Get(d, key, default) == IF key \in DOMAIN d THEN d[key] ELSE default

\* hasattr(entry, key): a FeedParserDict has the attribute when it has the key
HasAttr(d, key) == key \in DOMAIN d

Returned(v, c) == [exc |-> FALSE, val |-> v, calls |-> c]

Raised(c) == [exc |-> TRUE, val |-> << >>, calls |-> c]

\* all_articles.extend(more) after a first part: a raise in either part leaves
\* the function with the calls made so far
Extend(first, more) ==
    IF first.exc THEN Raised(first.calls)
    ELSE IF more.exc THEN Raised(first.calls \o more.calls)
    ELSE Returned(first.val \o more.val, first.calls \o more.calls)

\* try: ... except Exception: return []
ReturnEmptyOnError(r) == IF r.exc THEN Returned(<< >>, r.calls) ELSE r

\* datetime(*t[:6]): TypeError when t is None, ValueError when a field is out
\* of range
datetime(t) ==
    IF t = NoTime THEN Raised(<< >>)
    ELSE LET a == SubSeq(t, 1, 6) IN
         IF /\ a[1] \in 1..9999 /\ a[2] \in 1..12 /\ a[3] \in 1..31
            /\ a[4] \in 0..23 /\ a[5] \in 0..59 /\ a[6] \in 0..59
         THEN Returned(a, << >>)
         ELSE Raised(<< >>)

Pad2(n) == IF n < 10 THEN "0" \o ToString(n) ELSE ToString(n)

Pad4(n) ==
    IF n < 10 THEN "000" \o ToString(n)
    ELSE IF n < 100 THEN "00" \o ToString(n)
    ELSE IF n < 1000 THEN "0" \o ToString(n)
    ELSE ToString(n)

\* datetime.isoformat()
isoformat(d) ==
    Pad4(d[1]) \o "-" \o Pad2(d[2]) \o "-" \o Pad2(d[3]) \o "T"
        \o Pad2(d[4]) \o ":" \o Pad2(d[5]) \o ":" \o Pad2(d[6])

\* published.isoformat() if published else None
PublishedField(published) ==
    IF published # NoTime THEN isoformat(published) ELSE None

----------------------------------------------------------------------------
(* The environment: feeds and their entries *)

\* time.struct_time values as feedparser gives them
TimeP == <<2026, 11, 3, 8, 30, 0, 1, 307, 0>>

TimeU == <<2026, 11, 4, 9, 5, 7, 2, 308, 0>>

\* feedparser.parse(url): either raises or gives a feed with entries
FeedRaises == [raises |-> TRUE, entries |-> << >>]

Feed(es) == [raises |-> FALSE, entries |-> es]

\* a URL nothing is served at gives a feed without entries (bozo), as an
\* unreachable host does
parse(url) == IF url \in DOMAIN web THEN web[url] ELSE Feed(<< >>)

\* the union of two dicts with disjoint keys
Merge(f, g) == [k \in DOMAIN f \cup DOMAIN g |-> IF k \in DOMAIN f THEN f[k] ELSE g[k]]

\* the optional fields of an entry: each one missing, or present with one of
\* the values listed
Optional(key, values) == {<< >>} \cup {[k \in {key} |-> v] : v \in values}

\* entry number i of the feed at url: its link names the feed and the position
Linked(fields, url, i) ==
    Merge(fields, [link |-> url \o "#" \o ToString(i), summary |-> "body " \o ToString(i)])

\* the lists of at least lo and at most hi entry shapes taken from kinds
Shapes(kinds, lo, hi) == UNION {[1..m -> kinds] : m \in lo..hi}

\* what a URL serves: parse raises, or a feed whose entries have the shapes
\* listed
ShapeRaises == [raises |-> TRUE, kinds |-> << >>]

ShapeOf(ks) == [raises |-> FALSE, kinds |-> ks]

FeedAt(url, shape) ==
    IF shape.raises THEN FeedRaises
    ELSE Feed([i \in 1..Len(shape.kinds) |-> Linked(shape.kinds[i], url, i)])

----------------------------------------------------------------------------
(* fetcher.py: ThreatIntelFetcher.fetch_rss_feed *)

\* lines 15-25: the object __init__ makes
ThreatIntelFetcher(srcs, max_articles_per_source, accounts, lists, max_tweets_per_user, enabled) ==
    [sources          |-> srcs,
     max_articles     |-> max_articles_per_source,
     twitter_accounts |-> accounts,
     twitter_lists    |-> lists,
     max_tweets       |-> max_tweets_per_user,
     twitter_enabled  |-> enabled]

\* lines 38-42: the published date of one entry
ParsePublished(entry) ==
    IF HasAttr(entry, "published_parsed") THEN datetime(entry["published_parsed"])
    ELSE IF HasAttr(entry, "updated_parsed") THEN datetime(entry["updated_parsed"])
    ELSE Returned(NoTime, << >>)

\* lines 45-51: the article built from one entry
Article(entry, published, source_name) ==
    [title     |-> Get(entry, "title", "No Title"),
     link      |-> Get(entry, "link", ""),
     summary   |-> Get(entry, "summary", Get(entry, "description", "")),
     published |-> PublishedField(published),
     source    |-> source_name]

\* lines 36-53: the loop over the entries kept; an entry that raises ends it
RECURSIVE RssLoop(_, _, _)
RssLoop(entries, source_name, articles) ==
    IF entries = << >> THEN Returned(articles, << >>)
    ELSE LET published == ParsePublished(Head(entries)) IN
         IF published.exc THEN Raised(<< >>)
         ELSE RssLoop(Tail(entries), source_name,
                      Append(articles, Article(Head(entries), published.val, source_name)))

\* lines 30-56: the body of the try
RssBody(self, url, source_name) ==
    LET feed == parse(url) IN
    IF feed.raises THEN Raised(<<url>>)
    ELSE LET r == RssLoop(SliceTo(feed.entries, self.max_articles), source_name, << >>) IN
         [r EXCEPT !.calls = <<url>>]

\* fetch_rss_feed without its except clause
fetch_rss_feed_no_except(self, url, source_name) == RssBody(self, url, source_name)

\* lines 27-60: except Exception: return []
fetch_rss_feed(self, url, source_name) ==
    LET r == RssBody(self, url, source_name) IN
    IF r.exc THEN Returned(<< >>, r.calls) ELSE r

----------------------------------------------------------------------------
(* twitter_fetcher.py: TwitterFetcher *)

\* lines 23-28
nitter_instances ==
    <<"https://nitter.net", "https://nitter.poast.org",
      "https://nitter.privacydev.net", "https://nitter.1d4.us">>

\* lines 20-28: the object __init__ makes
TwitterFetcher(max_tweets_per_user) ==
    [max_tweets |-> max_tweets_per_user, nitter_instances |-> nitter_instances]

\* line 46
UserFeedUrl(instance, username) == instance \o "/" \o username \o "/rss"

\* line 100
ListFeedUrl(instance, list_owner, list_name) ==
    instance \o "/" \o list_owner \o "/lists/" \o list_name \o "/rss"

\* lines 58-60 and 112-114: the published date of one entry
ParseTweetPublished(entry) ==
    IF HasAttr(entry, "published_parsed") THEN datetime(entry["published_parsed"])
    ELSE Returned(NoTime, << >>)

\* lines 62-70
UserTweet(entry, published, username) ==
    [title       |-> Get(entry, "title", "Tweet from @" \o username),
     content     |-> Get(entry, "description", Get(entry, "summary", "")),
     link        |-> Get(entry, "link", ""),
     published   |-> PublishedField(published),
     source      |-> "@" \o username,
     source_type |-> "twitter",
     author      |-> username]

\* lines 117-127
ListTweet(entry, published, list_owner, list_name) ==
    [title       |-> Get(entry, "title", "Tweet from list " \o list_name),
     content     |-> Get(entry, "description", Get(entry, "summary", "")),
     link        |-> Get(entry, "link", ""),
     published   |-> PublishedField(published),
     source      |-> "List: " \o list_owner \o "/" \o list_name,
     source_type |-> "twitter_list",
     author      |-> Get(entry, "author", "Unknown")]

\* the loop over a mirror's entries that keeps the tweets built so far when an
\* entry raises
RECURSIVE UserTweetLoop_keep_prefix(_, _, _)
UserTweetLoop_keep_prefix(entries, username, tweets) ==
    IF entries = << >> THEN Returned(tweets, << >>)
    ELSE LET published == ParseTweetPublished(Head(entries)) IN
         IF published.exc THEN Returned(tweets, << >>)
         ELSE UserTweetLoop_keep_prefix(Tail(entries), username,
                  Append(tweets, UserTweet(Head(entries), published.val, username)))

\* lines 55-71: the loop over the entries kept; an entry that raises ends it
RECURSIVE UserTweetLoop(_, _, _)
UserTweetLoop(entries, username, tweets) ==
    IF entries = << >> THEN Returned(tweets, << >>)
    ELSE LET published == ParseTweetPublished(Head(entries)) IN
         IF published.exc THEN Raised(<< >>)
         ELSE UserTweetLoop(Tail(entries), username,
                            Append(tweets, UserTweet(Head(entries), published.val, username)))

\* lines 109-128
RECURSIVE ListTweetLoop(_, _, _, _)
ListTweetLoop(entries, list_owner, list_name, tweets) ==
    IF entries = << >> THEN Returned(tweets, << >>)
    ELSE LET published == ParseTweetPublished(Head(entries)) IN
         IF published.exc THEN Raised(<< >>)
         ELSE ListTweetLoop(Tail(entries), list_owner, list_name,
                            Append(tweets, ListTweet(Head(entries), published.val,
                                                     list_owner, list_name)))

\* the loop over the instances with return [] in the except clause where the
\* code has continue
RECURSIVE UserInstanceLoop_give_up(_, _, _, _)
UserInstanceLoop_give_up(self, instances, username, calls) ==
    IF instances = << >> THEN Returned(<< >>, calls)
    ELSE LET feed_url == UserFeedUrl(Head(instances), username)
             feed     == parse(feed_url)
             called   == Append(calls, feed_url)
             tweets   == UserTweetLoop(SliceTo(feed.entries, self.max_tweets), username, << >>)
         IN  IF feed.raises THEN Returned(<< >>, called)
             ELSE IF feed.entries = << >>
                  THEN UserInstanceLoop_give_up(self, Tail(instances), username, called)
             ELSE IF tweets.exc THEN Returned(<< >>, called)
             ELSE Returned(tweets.val, called)

\* lines 43-81: the loop over the instances. calls are the URLs parsed so far.
\* An instance without entries (line 51) or whose try raises (line 76) is
\* passed over; the first one whose entries are all processed returns.
RECURSIVE UserInstanceLoop(_, _, _, _)
UserInstanceLoop(self, instances, username, calls) ==
    IF instances = << >> THEN Returned(<< >>, calls)
    ELSE LET feed_url == UserFeedUrl(Head(instances), username)
             feed     == parse(feed_url)
             called   == Append(calls, feed_url)
             tweets   == UserTweetLoop(SliceTo(feed.entries, self.max_tweets), username, << >>)
         IN  IF feed.raises THEN UserInstanceLoop(self, Tail(instances), username, called)
             ELSE IF feed.entries = << >>
                  THEN UserInstanceLoop(self, Tail(instances), username, called)
             ELSE IF tweets.exc
                  THEN UserInstanceLoop(self, Tail(instances), username, called)
             ELSE Returned(tweets.val, called)

\* lines 30-81: instance_url is None for the pool, or the one instance to use
fetch_user_tweets_nitter(self, username, instance_url) ==
    LET instances == IF instance_url # None THEN <<instance_url>> ELSE self.nitter_instances
    IN  UserInstanceLoop(self, instances, username, << >>)

\* lines 97-138
RECURSIVE ListInstanceLoop(_, _, _, _, _)
ListInstanceLoop(self, instances, list_owner, list_name, calls) ==
    IF instances = << >> THEN Returned(<< >>, calls)
    ELSE LET feed_url == ListFeedUrl(Head(instances), list_owner, list_name)
             feed     == parse(feed_url)
             called   == Append(calls, feed_url)
             tweets   == ListTweetLoop(SliceTo(feed.entries, self.max_tweets * 3),
                                       list_owner, list_name, << >>)
         IN  IF feed.raises THEN ListInstanceLoop(self, Tail(instances), list_owner, list_name, called)
             ELSE IF feed.entries = << >>
                  THEN ListInstanceLoop(self, Tail(instances), list_owner, list_name, called)
             ELSE IF tweets.exc
                  THEN ListInstanceLoop(self, Tail(instances), list_owner, list_name, called)
             ELSE Returned(tweets.val, called)

\* lines 83-138
fetch_list_tweets_nitter(self, list_owner, list_name, instance_url) ==
    LET instances == IF instance_url # None THEN <<instance_url>> ELSE self.nitter_instances
    IN  ListInstanceLoop(self, instances, list_owner, list_name, << >>)

\* lines 140-157: one call per username, the results joined in order
RECURSIVE fetch_multiple_users(_, _)
fetch_multiple_users(self, usernames) ==
    IF usernames = << >> THEN Returned(<< >>, << >>)
    ELSE LET tweets == fetch_user_tweets_nitter(self, Head(usernames), None)
             rest   == fetch_multiple_users(self, Tail(usernames))
         IN  IF tweets.exc THEN Raised(tweets.calls)
             ELSE IF rest.exc THEN Raised(tweets.calls \o rest.calls)
             ELSE Returned(tweets.val \o rest.val, tweets.calls \o rest.calls)

----------------------------------------------------------------------------
(* fetcher.py: ThreatIntelFetcher.fetch_twitter_content and fetch_all_sources *)

\* '/' in list_spec
HasSlash(list_spec) == \E i \in DOMAIN list_spec : list_spec[i] = "/"

\* the characters of a string put together again
RECURSIVE Join(_)
Join(chars) == IF chars = << >> THEN "" ELSE Head(chars) \o Join(Tail(chars))

\* list_spec.split('/', 1): the text before the first '/' and the text after it
SplitOnce(list_spec) ==
    LET at == CHOOSE i \in DOMAIN list_spec :
                  /\ list_spec[i] = "/"
                  /\ \A j \in 1..(i - 1) : list_spec[j] # "/"
    IN  <<Join(SubSeq(list_spec, 1, at - 1)),
          Join(SubSeq(list_spec, at + 1, Len(list_spec)))>>

\* the loop over the list specs with break where a spec has no '/'
RECURSIVE ListsLoop_stop_at_malformed(_, _)
ListsLoop_stop_at_malformed(twitter, list_specs) ==
    IF list_specs = << >> THEN Returned(<< >>, << >>)
    ELSE IF HasSlash(Head(list_specs))
         THEN LET pair   == SplitOnce(Head(list_specs))
                  tweets == fetch_list_tweets_nitter(twitter, pair[1], pair[2], None)
                  rest   == ListsLoop_stop_at_malformed(twitter, Tail(list_specs))
              IN  Returned(tweets.val \o rest.val, tweets.calls \o rest.calls)
         ELSE Returned(<< >>, << >>)

\* lines 81-86: the loop over the list specs; a spec without '/' is passed over
RECURSIVE ListsLoop(_, _)
ListsLoop(twitter, list_specs) ==
    IF list_specs = << >> THEN Returned(<< >>, << >>)
    ELSE LET rest == ListsLoop(twitter, Tail(list_specs)) IN
         IF HasSlash(Head(list_specs))
         THEN LET pair   == SplitOnce(Head(list_specs))
                  tweets == fetch_list_tweets_nitter(twitter, pair[1], pair[2], None)
              IN  IF tweets.exc THEN Raised(tweets.calls)
                  ELSE IF rest.exc THEN Raised(tweets.calls \o rest.calls)
                  ELSE Returned(tweets.val \o rest.val, tweets.calls \o rest.calls)
         ELSE rest

\* lines 69-89: the body of the try
TwitterBody(self) ==
    Extend(IF self.twitter_accounts # << >>
           THEN fetch_multiple_users(TwitterFetcher(self.max_tweets), self.twitter_accounts)
           ELSE Returned(<< >>, << >>),
           IF self.twitter_lists # << >>
           THEN ListsLoop(TwitterFetcher(self.max_tweets), self.twitter_lists)
           ELSE Returned(<< >>, << >>))

\* fetch_twitter_content without the test of twitter_enabled
fetch_twitter_content_always(self) == ReturnEmptyOnError(TwitterBody(self))

\* lines 62-93: nothing is fetched when twitter_enabled is off; except
\* Exception: return []
fetch_twitter_content(self) ==
    IF ~self.twitter_enabled THEN Returned(<< >>, << >>)
    ELSE ReturnEmptyOnError(TwitterBody(self))

\* the loop over the sources with break at the first feed that gives nothing
RECURSIVE SourcesLoop_stop_at_empty(_, _)
SourcesLoop_stop_at_empty(self, srcs) ==
    IF srcs = << >> THEN Returned(<< >>, << >>)
    ELSE IF Head(srcs).type = "rss"
         THEN LET articles == fetch_rss_feed(self, Head(srcs).url, Head(srcs).name)
                  rest     == SourcesLoop_stop_at_empty(self, Tail(srcs))
              IN  IF articles.val = << >> THEN Returned(<< >>, articles.calls)
                  ELSE Returned(articles.val \o rest.val, articles.calls \o rest.calls)
         ELSE SourcesLoop_stop_at_empty(self, Tail(srcs))

\* lines 100-103: the loop over the sources; only those of type rss are read
RECURSIVE SourcesLoop(_, _)
SourcesLoop(self, srcs) ==
    IF srcs = << >> THEN Returned(<< >>, << >>)
    ELSE LET rest == SourcesLoop(self, Tail(srcs)) IN
         IF Head(srcs).type = "rss"
         THEN LET articles == fetch_rss_feed(self, Head(srcs).url, Head(srcs).name)
              IN  IF articles.exc THEN Raised(articles.calls)
                  ELSE IF rest.exc THEN Raised(articles.calls \o rest.calls)
                  ELSE Returned(articles.val \o rest.val, articles.calls \o rest.calls)
         ELSE rest

\* fetch_all_sources with the tweets put before the articles
fetch_all_sources_tweets_first(self) ==
    LET articles == SourcesLoop(self, self.sources)
        tweets   == fetch_twitter_content(self)
    IN  Returned(tweets.val \o articles.val, articles.calls \o tweets.calls)

\* lines 95-110: no try here, so whatever a callee raises leaves the function
fetch_all_sources(self) ==
    Extend(SourcesLoop(self, self.sources), fetch_twitter_content(self))

----------------------------------------------------------------------------
(* fetcher.py: ThreatIntelFetcher.get_articles_summary                     *)
(*                                                                         *)
(* A text is the sequence of its lines. An f-string puts a str in as it is *)
(* and None in as 'None', which is how None stands here.                   *)

\* d[key] = v
Put(d, key, v) == [k \in DOMAIN d \cup {key} |-> IF k = key THEN v ELSE d[k]]

\* lines 116-121: the block of one article; article['summary'] and the other
\* subscripts raise KeyError when the key is missing
SummaryBlock(idx, article) ==
    IF {"title", "source", "link", "published", "summary"} \subseteq DOMAIN article
    THEN Returned(<<"## Article " \o ToString(idx) \o ": " \o article["title"],
                    "**Source:** " \o article["source"],
                    "**Link:** " \o article["link"],
                    "**Published:** " \o article["published"],
                    "",
                    "**Summary:** " \o article["summary"],
                    "",
                    "---",
                    "">>, << >>)
    ELSE Raised(<< >>)

\* lines 115-122: the loop over the articles
RECURSIVE SummaryLoop(_, _, _)
SummaryLoop(articles, idx, summary_text) ==
    IF articles = << >> THEN Returned(summary_text, << >>)
    ELSE LET block == SummaryBlock(idx, Head(articles)) IN
         IF block.exc THEN Raised(<< >>)
         ELSE SummaryLoop(Tail(articles), idx + 1, summary_text \o block.val)

\* lines 112-124
get_articles_summary(self, articles) ==
    SummaryLoop(articles, 1, <<"# Threat Intelligence Articles", "">>)

----------------------------------------------------------------------------
(* summarizer.py: ThreatIntelSummarizer                                    *)
(*                                                                         *)
(* A value json gives is tagged with its JSON type, so that an empty       *)
(* object and an empty array differ. The text of a reply of the model is   *)
(* the sequence of its chunks: fences, blank space, prose and JSON         *)
(* documents.                                                              *)

JsonObject(d) == [json |-> "object", value |-> d]

JsonArray(s) == [json |-> "array", value |-> s]

\* a body that is not JSON: response.json() raises
NotJson == [json |-> "invalid", value |-> << >>]

\* lines 14-17: the object __init__ makes
ThreatIntelSummarizer(api_key, model) ==
    [api_key |-> api_key, model |-> model,
     api_url |-> "https://openrouter.ai/api/v1/chat/completions"]

\* '='*80
Rule80 ==
    "====================" \o "====================" \o "====================" \o "===================="

\* lines 216-223: the block of one article; article.get gives the default when
\* the key is missing
LlmBlock(idx, article) ==
    IF {"title", "source", "link"} \subseteq DOMAIN article
    THEN Returned(<<"",
                    Rule80,
                    "ARTICLE " \o ToString(idx),
                    Rule80,
                    "Title: " \o article["title"],
                    "Source: " \o article["source"],
                    "Link: " \o article["link"],
                    "Published: " \o Get(article, "published", "Unknown"),
                    "",
                    "Content:",
                    Get(article, "summary", "No summary available")>>, << >>)
    ELSE Raised(<< >>)

\* lines 215-223: the loop over the articles
RECURSIVE LlmLoop(_, _, _)
LlmLoop(articles, idx, formatted) ==
    IF articles = << >> THEN Returned(formatted, << >>)
    ELSE LET block == LlmBlock(idx, Head(articles)) IN
         IF block.exc THEN Raised(<< >>)
         ELSE LlmLoop(Tail(articles), idx + 1, formatted \o block.val)

\* lines 211-225
format_articles_for_llm(self, articles) == LlmLoop(articles, 1, << >>)

\* the chunks a reply is made of. The three backticks of a fence are written
\* ~~~, as a string here cannot hold a backtick
FenceJson == "~~~json"

Fence == "~~~"

Blank == " "

Prose == "Here is the digest:"

DigestText == "{\"executive_summary\": \"Patch the VPN appliances\"}"

OwnKeysText == "{\"executive_summary\": \"Quiet day\", \"article_count\": 99, \"articles\": []}"

EmptyObjectText == "{}"

ArrayText == "[\"Patch the VPN appliances\"]"

BrokenText == "{\"executive_summary\": "

\* a content that is None: the one chunk no text holds
NoContent == <<None>>

\* json.loads of each document that is valid JSON
JsonDocuments ==
    [t \in {DigestText, OwnKeysText, EmptyObjectText, ArrayText} |->
        IF t = DigestText THEN JsonObject([executive_summary |-> "Patch the VPN appliances"])
        ELSE IF t = OwnKeysText
        THEN JsonObject([executive_summary |-> "Quiet day", article_count |-> 99,
                         articles |-> << >>])
        ELSE IF t = EmptyObjectText THEN JsonObject(<< >>)
        ELSE JsonArray(<<"Patch the VPN appliances">>)]

\* the chunks that begin with '{', and those that end with '}': no chunk has a
\* brace elsewhere
StartsWithBrace(chunk) == chunk \in {DigestText, OwnKeysText, EmptyObjectText, BrokenText}

EndsWithBrace(chunk) == chunk \in {DigestText, OwnKeysText, EmptyObjectText}

\* str.strip()
RECURSIVE LStrip(_)
LStrip(text) ==
    IF text # << >> /\ Head(text) = Blank THEN LStrip(Tail(text)) ELSE text

RECURSIVE RStrip(_)
RStrip(text) ==
    IF text # << >> /\ text[Len(text)] = Blank THEN RStrip(SubSeq(text, 1, Len(text) - 1))
    ELSE text

Strip(text) == RStrip(LStrip(text))

\* sep in text
Contains(text, seps) == \E i \in DOMAIN text : text[i] \in seps

\* text.split(sep)[0]: the text before the first separator
BeforeFirst(text, seps) ==
    IF Contains(text, seps)
    THEN SubSeq(text, 1, (CHOOSE i \in DOMAIN text :
                             /\ text[i] \in seps
                             /\ \A j \in 1..(i - 1) : text[j] \notin seps) - 1)
    ELSE text

\* text.split(sep)[1]: the text between the first separator and the next
SplitSecond(text, seps) ==
    LET first == CHOOSE i \in DOMAIN text :
                     /\ text[i] \in seps
                     /\ \A j \in 1..(i - 1) : text[j] \notin seps
    IN  BeforeFirst(SubSeq(text, first + 1, Len(text)), seps)

\* lines 136-141: the text inside a markdown code block. The fence with json
\* after it holds the bare fence, so the second split ends at either
ExtractFenced(summary_text) ==
    IF Contains(summary_text, {FenceJson})
    THEN Strip(BeforeFirst(SplitSecond(summary_text, {FenceJson}), {Fence, FenceJson}))
    ELSE IF Contains(summary_text, {Fence})
    THEN Strip(BeforeFirst(SplitSecond(summary_text, {Fence}), {Fence}))
    ELSE summary_text

\* lines 144-152: re.search(r'\{.*\}', text, re.DOTALL) takes the text from
\* the first '{' to the last '}' when the text does not begin with '{'
ExtractObject(summary_text) ==
    IF summary_text # << >> /\ StartsWithBrace(summary_text[1]) THEN summary_text
    ELSE LET opens  == {i \in DOMAIN summary_text : StartsWithBrace(summary_text[i])}
             closes == {i \in DOMAIN summary_text : EndsWithBrace(summary_text[i])}
         IN  IF \E i \in opens, j \in closes : i <= j
             THEN SubSeq(summary_text,
                         CHOOSE i \in opens : \A k \in opens : i <= k,
                         CHOOSE j \in closes : \A k \in closes : k <= j)
             ELSE summary_text

\* json.loads(text): one valid document with blank space around it, anything
\* else raises JSONDecodeError
json_loads(text) ==
    LET documents == SelectSeq(text, LAMBDA chunk : chunk # Blank) IN
    IF Len(documents) = 1 /\ documents[1] \in DOMAIN JsonDocuments
    THEN Returned(JsonDocuments[documents[1]], << >>)
    ELSE Raised(<< >>)

\* what a raise inside the try of summarize_articles carries: the except clause
\* that takes it and str(e)
RaisedAs(clause, message) == [exc |-> TRUE, clause |-> clause, val |-> message, calls |-> << >>]

\* a summary that keeps the article_count and the articles the model wrote
WithArticles_reply_first(summary_data, articles) ==
    [k \in DOMAIN summary_data \cup {"article_count", "articles"} |->
        IF k \in DOMAIN summary_data THEN summary_data[k]
        ELSE IF k = "article_count" THEN Len(articles) ELSE articles]

\* lines 164-165
WithArticles(summary_data, articles) ==
    Put(Put(summary_data, "article_count", Len(articles)), "articles", articles)

\* lines 117-168: from the parsed response to the summary
SummaryOf(result, articles) ==
    IF result.json = "array" THEN RaisedAs("other", "'list' object has no attribute 'get'")
    ELSE IF "choices" \notin DOMAIN result.value
    THEN RaisedAs("other", "Invalid API response: "
                               \o Get(result.value, "error", "No choices in response"))
    ELSE IF result.value["choices"] = << >>
    THEN RaisedAs("other", "Invalid API response: "
                               \o Get(result.value, "error", "No choices in response"))
    ELSE IF "message" \notin DOMAIN result.value["choices"][1]
    THEN RaisedAs("other", "'message'")
    ELSE LET content == result.value["choices"][1]["message"]["content"] IN
         IF content = NoContent \/ content = << >> \/ Strip(content) = << >>
         THEN RaisedAs("other", "Empty response from AI model")
         ELSE LET summary_data == json_loads(ExtractObject(ExtractFenced(Strip(content)))) IN
              IF summary_data.exc THEN RaisedAs("decode", "")
              ELSE IF summary_data.val.json # "object"
              THEN RaisedAs("other", "'list' object does not support item assignment")
              ELSE [exc    |-> FALSE,
                    clause |-> "",
                    val    |-> WithArticles(summary_data.val.value, articles),
                    calls  |-> << >>]

\* requests.post(url, ...): what the remote endpoint answers
post(url) == remote

\* lines 49-82: the prompt, the text of the articles inside it
Prompt(articles_text) ==
    <<"You are a cybersecurity analyst creating a daily threat intelligence digest.">>
        \o articles_text
        \o <<"Return ONLY the JSON object, nothing else.">>

\* lines 84-168: the body of the try. calls holds what was posted
SummaryBody(self, articles, articles_text) ==
    LET response == post(self.api_url)
        sent == <<[url |-> self.api_url, model |-> self.model,
                   content |-> Prompt(articles_text)]>>
        r == IF response.raises THEN RaisedAs("request", "Read timed out.")
             ELSE IF response.status >= 400
             THEN RaisedAs("request", ToString(response.status) \o " Error for url: "
                                          \o self.api_url)
             ELSE IF response.body = NotJson
             THEN RaisedAs("request", "Expecting value: line 1 column 1 (char 0)")
             ELSE SummaryOf(response.body, articles)
    IN  [r EXCEPT !.calls = sent]

\* lines 178-185, 192-199 and 202-209: the text each except clause puts in
\* executive_summary
ErrorText(clause, message) ==
    IF clause = "request" THEN "Error generating summary: API request failed - " \o message
    ELSE IF clause = "decode"
    THEN "Error parsing summary: The AI model did not return valid JSON. "
             \o "Check your API key and model selection."
    ELSE "Error generating summary: " \o message

\* lines 178-185, 192-199 and 202-209: the record an except clause returns
ErrorSummary(clause, message, articles) ==
    [executive_summary |-> ErrorText(clause, message),
     critical_threats  |-> << >>,
     trending_topics   |-> << >>,
     categories        |-> << >>,
     article_count     |-> Len(articles),
     articles          |-> articles]

\* lines 36-43
NoArticlesSummary ==
    [executive_summary  |-> "No new threat intelligence articles found today.",
     critical_threats   |-> << >>,
     trending_topics    |-> << >>,
     category_summaries |-> << >>,
     article_count      |-> 0]

\* lines 25-209: the text of the articles is made before the try
summarize_articles(self, articles) ==
    IF articles = << >> THEN Returned(NoArticlesSummary, << >>)
    ELSE LET articles_text == format_articles_for_llm(self, articles) IN
         IF articles_text.exc THEN Raised(<< >>)
         ELSE LET r == SummaryBody(self, articles, articles_text.val) IN
              IF r.exc THEN Returned(ErrorSummary(r.clause, r.val, articles), r.calls)
              ELSE Returned(r.val, r.calls)

----------------------------------------------------------------------------
(* app_with_scheduler.py and app.py: generate_digest and the read API      *)
(*                                                                         *)
(* The clock is the local time of day: seconds after 07:59:59 and the      *)
(* microsecond. The digest directory is a function from file names to      *)
(* files; a file holds the record dumped into it and whether the dump has  *)
(* reached the disk, and stamp, the digits of its name, which order the    *)
(* names as the strings are ordered because every field has a fixed width. *)

\* datetime.now()
now(t) ==
    <<2026, 11, 4, 7 + ((59 * 60 + 59 + t.sec) \div 3600),
      ((59 * 60 + 59 + t.sec) \div 60) % 60, (59 + t.sec) % 60, t.usec>>

Pad6(n) ==
    IF n < 10 THEN "00000" \o ToString(n)
    ELSE IF n < 100 THEN "0000" \o ToString(n)
    ELSE IF n < 1000 THEN "000" \o ToString(n)
    ELSE IF n < 10000 THEN "00" \o ToString(n)
    ELSE IF n < 100000 THEN "0" \o ToString(n)
    ELSE ToString(n)

\* datetime.isoformat() of a datetime with microseconds: the fraction is left
\* out when the microsecond is 0
isoformat_now(d) == IF d[7] = 0 THEN isoformat(d) ELSE isoformat(d) \o "." \o Pad6(d[7])

\* strftime('%Y%m%d_%H%M%S')
strftime(d) ==
    Pad4(d[1]) \o Pad2(d[2]) \o Pad2(d[3]) \o "_" \o Pad2(d[4]) \o Pad2(d[5]) \o Pad2(d[6])

\* config.py
DIGEST_STORAGE_PATH == "data/digests/"

\* lines 43-46: the summarizer generate_digest makes, with the key and the
\* model of config.py
Summarizer == ThreatIntelSummarizer("sk-or-v1-key", "anthropic/claude-3.5-sonnet")

\* line 54
DigestFilename(d) == "digest_" \o strftime(d) \o ".json"

\* open(filepath, 'w'): the file is made, or cut to nothing when it is there
Opened(digest, d) == [data |-> digest, complete |-> FALSE, stamp |-> SubSeq(d, 1, 6)]

\* json.dump and the end of the with block: the whole text is in the file
Dumped(file) == [file EXCEPT !.complete = TRUE]

\* json.load(f): a text that is not whole raises JSONDecodeError. Every value
\* of a digest is a dict with str keys, a list, a str, an int or None, which
\* json.load gives back as json.dump took it
json_load(file) == IF file.complete THEN Returned(file.data, << >>) ELSE Raised(<< >>)

\* lines 36-40 and 62-66
ErrorRecord(message, d) == [error |-> message, timestamp |-> isoformat_now(d)]

\* a test that lets an empty list through
NoArticles_never(articles) == FALSE

\* line 36: not articles
NoArticles(articles) == articles = << >>

\* what lines 24-57 give: the record returned when the run ends there, or the
\* digest and the file opened for it
Ended(outcome, record, summarized, c) ==
    [exc |-> FALSE, outcome |-> outcome, val |-> record, summarized |-> summarized,
     filename |-> "", calls |-> c]

\* lines 49-57: the digest gets its timestamp and its sources_count and the
\* file is opened; summary is what summarize_articles gave, c the calls so far
OpenDigest(self, time, writable, summary, c) ==
    IF summary.exc
    THEN [Ended("raised", "'title'", TRUE, c) EXCEPT !.exc = TRUE]
    ELSE IF ~writable
    THEN [Ended("raised", "[Errno 2] No such file or directory: '"
                              \o DIGEST_STORAGE_PATH \o DigestFilename(now(time)) \o "'",
                TRUE, c) EXCEPT !.exc = TRUE]
    ELSE [exc |-> FALSE, outcome |-> "opened",
          val |-> Put(Put(summary.val, "timestamp", isoformat_now(now(time))),
                      "sources_count", Len(self.sources)),
          summarized |-> TRUE, filename |-> DigestFilename(now(time)), calls |-> c]

\* lines 34-57: what follows fetch_all_sources, fetched being what it gave
SummarizeFetched(self, time, writable, fetched) ==
    IF fetched.exc
    THEN [Ended("raised", "fetch_all_sources failed", FALSE, fetched.calls)
             EXCEPT !.exc = TRUE]
    ELSE IF NoArticles(fetched.val)
    THEN Ended("no_articles", ErrorRecord("No articles fetched", now(time)), FALSE,
               fetched.calls)
    ELSE OpenDigest(self, time, writable, summarize_articles(Summarizer, fetched.val),
                    fetched.calls)

\* lines 25-57: the body of the try, as far as the open. self is the fetcher
\* made from config, time the clock at the run, writable whether open succeeds
DigestBody(self, time, writable) ==
    SummarizeFetched(self, time, writable, fetch_all_sources(self))

\* generate_digest without its except clause
generate_digest_no_except(self, time, writable) == DigestBody(self, time, writable)

\* lines 62-66: except Exception returns a record with str(e) in it
ExceptException(r, time) ==
    IF r.exc THEN [r EXCEPT !.exc = FALSE, !.outcome = "failed",
                           !.val = ErrorRecord(r.val, now(time))]
    ELSE r

\* lines 22-66, as far as the open
generate_digest(self, time, writable) ==
    ExceptException(DigestBody(self, time, writable), time)

\* jsonify(body), status
Response(status, body) == [status |-> status, body |-> body]

\* file a stands before file b in the order of the names
NameBefore(files, a, b) ==
    \E i \in 1..6 : /\ files[a].stamp[i] < files[b].stamp[i]
                    /\ \A j \in 1..(i - 1) : files[a].stamp[j] = files[b].stamp[j]

\* the first name of sorted(...) without reverse=True
First_oldest(files) ==
    CHOOSE name \in DOMAIN files : \A other \in DOMAIN files : ~NameBefore(files, other, name)

\* the first name of sorted(glob('digest_*.json'), reverse=True)
First(files) ==
    CHOOSE name \in DOMAIN files : \A other \in DOMAIN files : ~NameBefore(files, name, other)

\* sorted(glob('digest_*.json'), reverse=True)
RECURSIVE Sorted(_)
Sorted(files) ==
    IF DOMAIN files = {} THEN << >>
    ELSE <<First(files)>> \o Sorted([name \in DOMAIN files \ {First(files)} |-> files[name]])

\* str(e) of the JSONDecodeError json.load raises on a text cut short
DecodeError == [error |-> "Expecting value: line 1 column 1 (char 0)"]

\* lines 96-119
api_get_latest_digest(files) ==
    LET digest_files == Sorted(files) IN
    IF digest_files = << >>
    THEN Response(404, [error |-> "No digests found",
                        message |-> "Generate a new digest to get started"])
    ELSE LET digest == json_load(files[digest_files[1]]) IN
         IF digest.exc THEN Response(500, DecodeError) ELSE Response(200, digest.val)

\* lines 131-139: the loop over the files; one that cannot be read ends it
RECURSIVE HistoryLoop(_, _, _)
HistoryLoop(files, digest_files, history) ==
    IF digest_files = << >> THEN Returned(history, << >>)
    ELSE LET digest == json_load(files[Head(digest_files)]) IN
         IF digest.exc THEN Raised(<< >>)
         ELSE HistoryLoop(files, Tail(digest_files),
                          Append(history,
                                 [filename      |-> Head(digest_files),
                                  timestamp     |-> Get(digest.val, "timestamp", None),
                                  article_count |-> Get(digest.val, "article_count", 0)]))

\* lines 122-144
api_get_digest_history(files) ==
    LET history == HistoryLoop(files, Sorted(files), << >>) IN
    IF history.exc THEN Response(500, DecodeError) ELSE Response(200, history.val)

\* lines 147-162
api_get_digest_by_filename(files, filename) ==
    IF filename \notin DOMAIN files THEN Response(404, [error |-> "Digest not found"])
    ELSE LET digest == json_load(files[filename]) IN
         IF digest.exc THEN Response(500, DecodeError) ELSE Response(200, digest.val)

----------------------------------------------------------------------------
(* scheduler.py: DigestScheduler, and the BackgroundScheduler it wraps     *)

\* lines 14-26: the scheduler is made stopped and without jobs
DigestScheduler(hour, minute) ==
    [running |-> FALSE, jobs |-> {}, hour |-> hour, minute |-> minute]

\* _run_digest without its except clause
run_digest_no_except(outcome) == outcome

\* lines 48-56: the result of the digest function, or None after the except
\* clause logged what it raised
run_digest(outcome) == IF outcome.exc THEN Returned(None, << >>) ELSE outcome

\* lines 58-61
run_now(outcome) == run_digest(outcome)

\* the executor of BackgroundScheduler runs the job's function, logs what it
\* raises and keeps the job: the event it gives out
run_job(outcome) == IF run_digest(outcome).exc THEN "error" ELSE "executed"

\* what the digest function did when called
Did(outcome) == IF outcome.exc THEN "raised" ELSE "ran"

\* lines 28-41: add_job replaces the job of the same id; scheduler.start()
\* raises SchedulerAlreadyRunningError when it runs already
start(self) == [self EXCEPT !.jobs = self.jobs \cup {"daily_digest"}, !.running = TRUE]

\* lines 43-46: scheduler.shutdown() raises SchedulerNotRunningError when it
\* does not run
stop(self) == [self EXCEPT !.running = FALSE]

----------------------------------------------------------------------------
(* The application at rest: nothing generated, nothing stored, the         *)
(* scheduler not started                                                   *)

\* the thread of the BackgroundScheduler and a request thread of Flask
Threads == {"scheduler", "request"}

\* a thread that is not inside generate_digest
IdleThread == [pc |-> "idle", digest |-> << >>, filename |-> "", started |-> << >>]

\* the remote endpoint cannot be reached
NoReply == [raises |-> TRUE, status |-> 0, body |-> NotJson]

Midnight == [sec |-> 0, usec |-> 0]

AtRest ==
    /\ remote = NoReply
    /\ store = << >>
    /\ clock = Midnight
    /\ threads = [t \in Threads |-> IdleThread]
    /\ runs = << >>
    /\ persisted = << >>
    /\ sched = DigestScheduler(8, 0)
    /\ fired = 0

----------------------------------------------------------------------------
(* The environment of the readers: one feed, and one account and one list  *)
(* read through the pool of mirrors                                        *)

KrebsFeed == [name |-> "Krebs on Security",
              url  |-> "https://krebsonsecurity.com/feed/",
              type |-> "rss"]

FeedTitles == {"", "Zero-day"}

\* the shapes of a feed entry: title, published_parsed and updated_parsed are
\* each missing or present; a date feedparser could not parse is present as None
FeedEntryKinds ==
    {Merge(t, Merge(p, u)) :
        t \in Optional("title", FeedTitles),
        p \in Optional("published_parsed", {NoTime, TimeP}),
        u \in Optional("updated_parsed", {NoTime, TimeU})}

FeedShapes == {ShapeRaises} \cup {ShapeOf(ks) : ks \in Shapes(FeedEntryKinds, 0, MaxEntries)}

Caps == (0 - 1)..MaxCap

Account == "briankrebs"

\* the list spec 'NASA/astronauts'
ListOwner == "NASA"

ListName == "astronauts"

\* an entry feedparser dated, with a title
DatedTweet == [title |-> "CVE alert", published_parsed |-> TimeP]

\* an entry whose date feedparser could not parse: published_parsed is None
UndatableTweet == [published_parsed |-> NoTime]

\* the shapes of a mirror's entries: a single entry has any of four shapes,
\* longer lists mix dated and undatable entries
TweetKinds == {DatedTweet, UndatableTweet, [title |-> ""], << >>}

TweetShapes ==
    {ShapeRaises}
        \cup {ShapeOf(ks) : ks \in Shapes(TweetKinds, 0, 1)}
        \cup {ShapeOf(ks) : ks \in Shapes({DatedTweet, UndatableTweet}, 2, MaxEntries)}

Instances == DOMAIN nitter_instances

IsDown(shape) == shape.raises \/ shape.kinds = << >>

\* the pools in which at most two mirrors serve entries
Pools ==
    {pool \in [Instances -> TweetShapes] :
        Cardinality({i \in Instances : ~IsDown(pool[i])}) <= 2}

\* a list feed carries more entries than an account feed: the mirror's shape
\* twice over
ListShape(shape) == [shape EXCEPT !.kinds = shape.kinds \o shape.kinds]

\* the account's feed at each mirror of a pool
UserWeb(username, pool) ==
    [u \in {UserFeedUrl(nitter_instances[i], username) : i \in Instances} |->
        LET i == CHOOSE j \in Instances : u = UserFeedUrl(nitter_instances[j], username)
        IN  FeedAt(u, pool[i])]

\* the list's feed at each mirror of a pool
ListWeb(list_owner, list_name, pool) ==
    [u \in {ListFeedUrl(nitter_instances[i], list_owner, list_name) : i \in Instances} |->
        LET i == CHOOSE j \in Instances :
                     u = ListFeedUrl(nitter_instances[j], list_owner, list_name)
        IN  FeedAt(u, pool[i])]

\* each mirror serves the account's feed and the list's feed
PoolWeb(pool) ==
    Merge(UserWeb(Account, pool),
          ListWeb(ListOwner, ListName, [i \in Instances |-> ListShape(pool[i])]))

Idle == [name |-> "init"]

NoRet == Returned(<< >>, << >>)

\* a fetcher of one feed, and the feed
InitFeed ==
    /\ \E cap \in Caps :
          fetcher = ThreatIntelFetcher(<<KrebsFeed>>, cap, << >>, << >>, 0, FALSE)
    /\ \E shape \in FeedShapes :
          web = [u \in {KrebsFeed.url} |-> FeedAt(u, shape)]
    /\ op = Idle
    /\ ret = NoRet
    /\ AtRest

\* a fetcher of one account, and the pool
InitSocial ==
    /\ \E cap \in Caps :
          fetcher = ThreatIntelFetcher(<< >>, 0, <<Account>>, << >>, cap, TRUE)
    /\ \E pool \in Pools : web = PoolWeb(pool)
    /\ op = Idle
    /\ ret = NoRet
    /\ AtRest

InitReaders == InitFeed \/ InitSocial

FetchRssFeed ==
    \E i \in DOMAIN fetcher.sources :
        /\ op' = [name |-> "fetch_rss_feed", url |-> fetcher.sources[i].url,
                  source_name |-> fetcher.sources[i].name]
        /\ ret' = fetch_rss_feed(fetcher, fetcher.sources[i].url, fetcher.sources[i].name)
        /\ UNCHANGED <<fetcher, web, appvars>>

FetchUserTweetsNitter ==
    \E i \in DOMAIN fetcher.twitter_accounts :
        /\ op' = [name |-> "fetch_user_tweets_nitter",
                  username |-> fetcher.twitter_accounts[i]]
        /\ ret' = fetch_user_tweets_nitter(TwitterFetcher(fetcher.max_tweets),
                                           fetcher.twitter_accounts[i], None)
        /\ UNCHANGED <<fetcher, web, appvars>>

FetchListTweetsNitter ==
    /\ op' = [name |-> "fetch_list_tweets_nitter", list_owner |-> ListOwner,
              list_name |-> ListName]
    /\ ret' = fetch_list_tweets_nitter(TwitterFetcher(fetcher.max_tweets),
                                       ListOwner, ListName, None)
    /\ UNCHANGED <<fetcher, web, appvars>>

NextReaders == FetchRssFeed \/ FetchUserTweetsNitter \/ FetchListTweetsNitter

SpecReaders == InitReaders /\ [][NextReaders]_vars

----------------------------------------------------------------------------
(* The environment of the aggregator: feeds, accounts and lists together *)

SchneierFeed == [name |-> "Schneier on Security",
                 url  |-> "https://www.schneier.com/feed/atom/",
                 type |-> "rss"]

\* a source the loop passes over: its type is not rss
AdvisoryPage == [name |-> "Vendor advisories",
                 url  |-> "https://vendor.example/advisories.html",
                 type |-> "html"]

OtherAccount == "schneier"

\* config.py
MAX_ARTICLES_PER_SOURCE == 5

MAX_TWEETS_PER_USER == 3

NasaSpec == <<"N", "A", "S", "A", "/", "a", "s", "t", "r", "o", "n", "a", "u", "t", "s">>

\* two separators: the owner is 'sec', the list name 'red/team'
NestedSpec == <<"s", "e", "c", "/", "r", "e", "d", "/", "t", "e", "a", "m">>

\* no separator
MalformedSpec == <<"n", "o", "u", "s", "e", "r", "-", "n", "o", "-", "l", "i", "s", "t">>

OlderArticle == [title |-> "Botnet takedown", published_parsed |-> TimeP]

NewerArticle == [title |-> "Patch Tuesday", updated_parsed |-> TimeU]

\* a feed fails, or serves one entry, or an older entry before a newer one
AggFeedShapes == {ShapeRaises, ShapeOf(<<NewerArticle>>), ShapeOf(<<OlderArticle, NewerArticle>>)}

\* every mirror is down: unreachable ones and empty ones in turn
PoolDown == [i \in Instances |-> IF i % 2 = 1 THEN ShapeRaises ELSE ShapeOf(<< >>)]

\* the first mirror serves two entries
PoolFirstUp ==
    [i \in Instances |-> IF i = 1 THEN ShapeOf(<<DatedTweet, [title |-> ""]>>)
                         ELSE ShapeOf(<<DatedTweet>>)]

\* the first mirror is unreachable, the second serves an undatable entry, the
\* third serves one entry
PoolThirdUp ==
    [i \in Instances |-> IF i = 1 THEN ShapeRaises
                         ELSE IF i = 2 THEN ShapeOf(<<UndatableTweet>>)
                         ELSE IF i = 3 THEN ShapeOf(<<DatedTweet>>)
                         ELSE ShapeOf(<<DatedTweet, DatedTweet>>)]

AggWeb(krebs, schneier, account, other, nasa, nested) ==
    Merge([u \in {KrebsFeed.url} |-> FeedAt(u, krebs)],
    Merge([u \in {SchneierFeed.url} |-> FeedAt(u, schneier)],
    Merge(UserWeb(Account, account),
    Merge(UserWeb(OtherAccount, other),
    Merge(ListWeb("NASA", "astronauts", nasa),
          ListWeb("sec", "red/team", nested))))))

InitAgg ==
    /\ \E srcs \in {<< >>, <<KrebsFeed, SchneierFeed>>, <<SchneierFeed, AdvisoryPage, KrebsFeed>>},
          accounts \in {<< >>, <<Account, OtherAccount>>, <<OtherAccount, Account>>},
          lists \in {<< >>, <<NasaSpec, MalformedSpec, NestedSpec>>,
                     <<MalformedSpec, NestedSpec, NasaSpec>>},
          caps \in {<<MAX_ARTICLES_PER_SOURCE, MAX_TWEETS_PER_USER>>, <<1, 1>>},
          enabled \in BOOLEAN :
            fetcher = ThreatIntelFetcher(srcs, caps[1], accounts, lists, caps[2], enabled)
    /\ \E krebs \in AggFeedShapes, schneier \in AggFeedShapes,
          account \in {PoolDown, PoolFirstUp, PoolThirdUp},
          nasa \in {PoolDown, PoolFirstUp, PoolThirdUp} :
            web = AggWeb(krebs, schneier, account, PoolFirstUp, nasa, PoolThirdUp)
    /\ op = Idle
    /\ ret = NoRet
    /\ AtRest

FetchTwitterContent ==
    /\ op' = [name |-> "fetch_twitter_content"]
    /\ ret' = fetch_twitter_content(fetcher)
    /\ UNCHANGED <<fetcher, web, appvars>>

FetchAllSources ==
    /\ op' = [name |-> "fetch_all_sources"]
    /\ ret' = fetch_all_sources(fetcher)
    /\ UNCHANGED <<fetcher, web, appvars>>

NextAgg == FetchTwitterContent \/ FetchAllSources

SpecAgg == InitAgg /\ [][NextAgg]_vars

----------------------------------------------------------------------------
(* Properties of the readers, checked under SpecReaders *)

IsOp(name) == op.name = name

\* the feed the last fetch_rss_feed read
ReadFeed == parse(op.url)

\* the URLs of the pool for the account or the list of the last call, in pool
\* order
PoolUrls ==
    [i \in Instances |->
        IF IsOp("fetch_user_tweets_nitter")
        THEN UserFeedUrl(nitter_instances[i], op.username)
        ELSE ListFeedUrl(nitter_instances[i], op.list_owner, op.list_name)]

\* the cap the last social call is under
PoolCap == IF IsOp("fetch_user_tweets_nitter") THEN fetcher.max_tweets
           ELSE fetcher.max_tweets * 3

IsSocialOp == IsOp("fetch_user_tweets_nitter") \/ IsOp("fetch_list_tweets_nitter")

\* the entry has the key with a time in it
Usable(entry, key) == key \in DOMAIN entry /\ entry[key] # NoTime

\* the entry has the key with None in it
Unparsed(entry, key) == key \in DOMAIN entry /\ entry[key] = NoTime

\* a mirror that serves nothing: unreachable, or a feed without entries
ServesNothing(url) == parse(url).raises \/ parse(url).entries = << >>

\* C1 as stated, for caps that are counts: when mirrors 1..k-1 serve nothing
\* and mirror k serves M > 0 entries, fetch_user_tweets_nitter returns the
\* items of mirror k's first min(M, max_tweets) entries, in order, and reads
\* no mirror after k.
C1_MirrorFallback ==
    (IsOp("fetch_user_tweets_nitter") /\ fetcher.max_tweets >= 0) =>
        \A k \in Instances :
            LET entries == parse(PoolUrls[k]).entries IN
            (/\ \A j \in 1..(k - 1) : ServesNothing(PoolUrls[j])
             /\ ~ServesNothing(PoolUrls[k]))
            => /\ ~ret.exc
               /\ Len(ret.val) = Min(Len(entries), fetcher.max_tweets)
               /\ \A i \in DOMAIN ret.val : ret.val[i].link = entries[i].link
               /\ ret.calls = SubSeq(PoolUrls, 1, k)

\* C3 as stated: for every integer cap, fetch_rss_feed returns at most
\* max_articles items, fetch_user_tweets_nitter at most max_tweets and
\* fetch_list_tweets_nitter at most max_tweets * 3.
C3_CapForEveryInteger ==
    /\ IsOp("fetch_rss_feed") => Len(ret.val) <= fetcher.max_articles
    /\ IsOp("fetch_user_tweets_nitter") => Len(ret.val) <= fetcher.max_tweets
    /\ IsOp("fetch_list_tweets_nitter") => Len(ret.val) <= fetcher.max_tweets * 3

\* C3 amended: for every cap that is not negative, fetch_rss_feed returns at
\* most max_articles items, fetch_user_tweets_nitter at most max_tweets and
\* fetch_list_tweets_nitter at most max_tweets * 3.
C3_CapWhenNotNegative ==
    /\ (IsOp("fetch_rss_feed") /\ fetcher.max_articles >= 0)
           => Len(ret.val) <= fetcher.max_articles
    /\ (IsOp("fetch_user_tweets_nitter") /\ fetcher.max_tweets >= 0)
           => Len(ret.val) <= fetcher.max_tweets
    /\ (IsOp("fetch_list_tweets_nitter") /\ fetcher.max_tweets >= 0)
           => Len(ret.val) <= fetcher.max_tweets * 3

\* a list read under a cap of 1 * 3 from a mirror that serves four entries
\* gave three items
C3_Witness ==
    /\ IsOp("fetch_list_tweets_nitter")
    /\ fetcher.max_tweets = 1
    /\ ret.calls # << >>
    /\ Len(parse(ret.calls[Len(ret.calls)]).entries) = 4
    /\ Len(ret.val) = 3

\* processing the entries kept raises: one of them has a date that is None
\* where line 40 or line 42 reads it
ProcessingRaises(entries) ==
    \E i \in DOMAIN entries :
        \/ Unparsed(entries[i], "published_parsed")
        \/ /\ "published_parsed" \notin DOMAIN entries[i]
           /\ Unparsed(entries[i], "updated_parsed")

\* C4: fetch_rss_feed never raises, and returns the empty list when the feed
\* cannot be retrieved or parsed or when processing its entries raises.
C4_FeedReaderTotal ==
    IsOp("fetch_rss_feed") =>
        /\ ~ret.exc
        /\ (\/ ServesNothing(op.url)
            \/ ProcessingRaises(SliceTo(ReadFeed.entries, fetcher.max_articles)))
           => ret.val = << >>

\* the second entry of a feed raised after the first was built, and the call
\* returned the empty list
C4_Witness ==
    /\ IsOp("fetch_rss_feed")
    /\ fetcher.max_articles >= 2
    /\ Len(ReadFeed.entries) >= 2
    /\ Usable(ReadFeed.entries[1], "published_parsed")
    /\ Unparsed(ReadFeed.entries[2], "published_parsed")
    /\ ret = Returned(<< >>, <<op.url>>)

\* a mirror that yields nothing under the cap: unreachable, without entries,
\* or with an entry among those kept whose processing raises
MirrorFails(url) ==
    \/ ServesNothing(url)
    \/ \E i \in DOMAIN SliceTo(parse(url).entries, PoolCap) :
           Unparsed(parse(url).entries[i], "published_parsed")

\* C5: a social read tries the mirrors in pool order, each at most once, and
\* never raises; when every mirror fails it has tried each of them exactly
\* once and returns the empty list.
C5_MirrorExhaustion ==
    IsSocialOp =>
        /\ ~ret.exc
        /\ Len(ret.calls) <= Len(nitter_instances)
        /\ ret.calls = SubSeq(PoolUrls, 1, Len(ret.calls))
        /\ (\A i \in Instances : MirrorFails(PoolUrls[i]))
           => (ret.calls = PoolUrls /\ ret.val = << >>)

\* every mirror failed, one unreachable, one empty and one while its entries
\* were processed, and all four were tried
C5_Witness ==
    /\ IsOp("fetch_user_tweets_nitter")
    /\ \A i \in Instances : MirrorFails(PoolUrls[i])
    /\ \E i \in Instances : parse(PoolUrls[i]).raises
    /\ \E i \in Instances : parse(PoolUrls[i]) = Feed(<< >>)
    /\ \E i \in Instances : ~ServesNothing(PoolUrls[i])
    /\ ret = Returned(<< >>, PoolUrls)

\* C9 as stated: every item a reader returns has a title that is not empty
\* and a source label that is not empty.
C9_TitleNeverEmpty ==
    (IsOp("fetch_rss_feed") \/ IsSocialOp) =>
        \A i \in DOMAIN ret.val : ret.val[i].title # "" /\ ret.val[i].source # ""

\* the published value C10 gives an entry: the published time when usable,
\* else the updated time when usable, else None
FallbackPublished(entry) ==
    IF Usable(entry, "published_parsed")
    THEN isoformat(SubSeq(entry["published_parsed"], 1, 6))
    ELSE IF Usable(entry, "updated_parsed")
    THEN isoformat(SubSeq(entry["updated_parsed"], 1, 6))
    ELSE None

\* C10 as stated, for caps that are counts: every entry kept of a feed that
\* parsed has its item, whose published value is the published time when
\* usable, else the updated time when usable, else None.
C10_TimestampFallback ==
    (IsOp("fetch_rss_feed") /\ ~ReadFeed.raises /\ fetcher.max_articles >= 0) =>
        /\ Len(ret.val) = Min(Len(ReadFeed.entries), fetcher.max_articles)
        /\ \A i \in DOMAIN ret.val :
              /\ ret.val[i].link = ReadFeed.entries[i].link
              /\ ret.val[i].published = FallbackPublished(ReadFeed.entries[i])

----------------------------------------------------------------------------
(* Properties of the aggregator, checked under SpecAgg *)

RECURSIVE Flatten(_)
Flatten(lists) == IF lists = << >> THEN << >> ELSE Head(lists) \o Flatten(Tail(lists))

\* the sources that are feeds, in declaration order
FeedSources == SelectSeq(fetcher.sources, LAMBDA d : d.type = "rss")

\* owner and list name of the list specs that have a separator
OwnerAndList(list_spec) ==
    IF list_spec = NasaSpec THEN <<"NASA", "astronauts">> ELSE <<"sec", "red/team">>

ValidSpecs == SelectSeq(fetcher.twitter_lists, LAMBDA l : l # MalformedSpec)

\* what each source gives when read on its own
FeedAlone(d) == fetch_rss_feed(fetcher, d.url, d.name)

AccountAlone(username) ==
    fetch_user_tweets_nitter(TwitterFetcher(fetcher.max_tweets), username, None)

ListAlone(list_spec) ==
    fetch_list_tweets_nitter(TwitterFetcher(fetcher.max_tweets),
                             OwnerAndList(list_spec)[1], OwnerAndList(list_spec)[2], None)

FeedPart == Flatten([i \in DOMAIN FeedSources |-> FeedAlone(FeedSources[i]).val])

AccountPart ==
    Flatten([i \in DOMAIN fetcher.twitter_accounts |->
                AccountAlone(fetcher.twitter_accounts[i]).val])

ListPart == Flatten([i \in DOMAIN ValidSpecs |-> ListAlone(ValidSpecs[i]).val])

\* the items of the result that carry a source label
ItemsFrom(label) == SelectSeq(ret.val, LAMBDA a : a.source = label)

ListLabel(list_spec) ==
    "List: " \o OwnerAndList(list_spec)[1] \o "/" \o OwnerAndList(list_spec)[2]

\* C2: with twitter_enabled on, fetch_all_sources returns the items of each
\* feed in declaration order, then those of each account in order, then those
\* of each list in order, each source's items in the source's own order, none
\* dropped, repeated or moved.
C2_AggregateOrder ==
    (IsOp("fetch_all_sources") /\ fetcher.twitter_enabled) =>
        /\ ~ret.exc
        /\ ret.val = FeedPart \o AccountPart \o ListPart

\* two feeds, two accounts and two lists each gave items; a newer article
\* stands after an older one of the same feed, and before an older tweet
C2_Witness ==
    /\ IsOp("fetch_all_sources")
    /\ fetcher.twitter_enabled
    /\ \A label \in {KrebsFeed.name, SchneierFeed.name, "@" \o Account, "@" \o OtherAccount,
                     ListLabel(NasaSpec), ListLabel(NestedSpec)} :
           ItemsFrom(label) # << >>
    /\ \E i \in DOMAIN ret.val :
           /\ i + 2 <= Len(ret.val)
           /\ ret.val[i].published = isoformat(SubSeq(TimeP, 1, 6))
           /\ ret.val[i + 1].published = isoformat(SubSeq(TimeU, 1, 6))
           /\ ret.val[i + 1].source = ret.val[i].source
           /\ ret.val[Len(ret.val)].published = isoformat(SubSeq(TimeP, 1, 6))

\* C6: fetch_all_sources never raises, and what a source contributes is what
\* that source gives on its own, whatever happens to the others: a feed that
\* fails and a pool that is exhausted contribute nothing.
C6_AggregatorTotal ==
    IsOp("fetch_all_sources") =>
        /\ ~ret.exc
        /\ \A i \in DOMAIN FeedSources :
              /\ ItemsFrom(FeedSources[i].name) = FeedAlone(FeedSources[i]).val
              /\ parse(FeedSources[i].url).raises => ItemsFrom(FeedSources[i].name) = << >>
        /\ fetcher.twitter_enabled =>
              /\ \A i \in DOMAIN fetcher.twitter_accounts :
                    ItemsFrom("@" \o fetcher.twitter_accounts[i])
                        = AccountAlone(fetcher.twitter_accounts[i]).val
              /\ \A i \in DOMAIN ValidSpecs :
                    ItemsFrom(ListLabel(ValidSpecs[i])) = ListAlone(ValidSpecs[i]).val

\* the first feed failed and the first account's pool was exhausted, and the
\* feed and the account after them gave their items
C6_Witness ==
    /\ IsOp("fetch_all_sources")
    /\ fetcher.twitter_enabled
    /\ fetcher.sources = <<KrebsFeed, SchneierFeed>>
    /\ fetcher.twitter_accounts = <<Account, OtherAccount>>
    /\ parse(KrebsFeed.url).raises
    /\ \A i \in Instances : ServesNothing(UserFeedUrl(nitter_instances[i], Account))
    /\ Len(ItemsFrom(SchneierFeed.name)) = 2
    /\ Len(ItemsFrom("@" \o OtherAccount)) = 2
    /\ ItemsFrom(KrebsFeed.name) = << >>
    /\ ItemsFrom("@" \o Account) = << >>

\* a URL of one of the mirrors
IsMirrorUrl(url) ==
    \E i \in Instances, username \in {Account, OtherAccount}, l \in {NasaSpec, NestedSpec} :
        \/ url = UserFeedUrl(nitter_instances[i], username)
        \/ url = ListFeedUrl(nitter_instances[i], OwnerAndList(l)[1], OwnerAndList(l)[2])

\* C7: with twitter_enabled off, fetch_all_sources returns what it returns
\* with twitter_enabled on and no accounts and no lists, only articles of
\* feeds, and reads no mirror.
C7_SocialSwitch ==
    (IsOp("fetch_all_sources") /\ ~fetcher.twitter_enabled) =>
        /\ ret.val = fetch_all_sources([fetcher EXCEPT !.twitter_enabled = TRUE,
                                                       !.twitter_accounts = << >>,
                                                       !.twitter_lists = << >>]).val
        /\ \A i \in DOMAIN ret.val : "source_type" \notin DOMAIN ret.val[i]
        /\ \A i \in DOMAIN ret.calls : ~IsMirrorUrl(ret.calls[i])

\* twitter_enabled is off with accounts and lists configured whose mirrors
\* serve entries, and the feeds gave items
C7_Witness ==
    /\ IsOp("fetch_all_sources")
    /\ ~fetcher.twitter_enabled
    /\ fetcher.twitter_accounts # << >>
    /\ fetcher.twitter_lists # << >>
    /\ AccountPart # << >>
    /\ ListPart # << >>
    /\ Len(ret.val) >= 3

\* C8: in fetch_twitter_content a list spec without '/' is passed over (no
\* mirror is read for it and it gives no item) and every spec with a '/' before
\* and after it is read, owner and list name split at the '/', its items added
\* in list order.
C8_MalformedListSpec ==
    (IsOp("fetch_twitter_content") /\ fetcher.twitter_enabled) =>
        /\ ret.val = AccountPart \o ListPart
        /\ ret.calls =
              Flatten([i \in DOMAIN fetcher.twitter_accounts |->
                          AccountAlone(fetcher.twitter_accounts[i]).calls])
              \o Flatten([i \in DOMAIN ValidSpecs |-> ListAlone(ValidSpecs[i]).calls])

\* the list specs begin with the one without '/', and both lists after it
\* gave items
C8_Witness ==
    /\ IsOp("fetch_twitter_content")
    /\ fetcher.twitter_enabled
    /\ fetcher.twitter_lists = <<MalformedSpec, NestedSpec, NasaSpec>>
    /\ ItemsFrom("List: sec/red/team") # << >>
    /\ ItemsFrom("List: NASA/astronauts") # << >>
    /\ \E i \in DOMAIN ret.calls : ret.calls[i] = "https://nitter.net/sec/lists/red/team/rss"
    /\ ret.val[Len(ret.val)].source = "List: NASA/astronauts"

----------------------------------------------------------------------------
(* The environment of the formatters and the summarizer: an aggregate and  *)
(* a reply of the remote model                                             *)

\* the longest reply of the model, in chunks
MaxChunks == 2

Chunks ==
    {FenceJson, Fence, Blank, Prose, DigestText, OwnKeysText, EmptyObjectText, ArrayText,
     BrokenText}

\* the texts the model may answer with
Contents == UNION {[1..n -> Chunks] : n \in 0..MaxChunks}

\* a response of status 200 with a JSON body
Ok(body) == [raises |-> FALSE, status |-> 200, body |-> body]

\* a completion whose message has the content
Completion(content) ==
    Ok(JsonObject([choices |-> <<[message |-> [role |-> "assistant", content |-> content]]>>]))

\* the request times out; the endpoint refuses the key; the body is not JSON;
\* the body is an array, has no choices, has none in them, has a choice
\* without a message, has no content; or the body has a content
Replies ==
    {NoReply,
     [raises |-> FALSE, status |-> 401,
      body |-> JsonObject([error |-> "{'message': 'No auth credentials found', 'code': 401}"])],
     Ok(NotJson),
     Ok(JsonArray(<< >>)),
     Ok(JsonObject([error |-> "{'message': 'Provider returned error', 'code': 502}"])),
     Ok(JsonObject([choices |-> << >>])),
     Ok(JsonObject([choices |-> <<[finish_reason |-> "error"]>>])),
     Completion(NoContent)}
        \cup {Completion(content) : content \in Contents}

\* Krebs serves two articles, Schneier fails, both accounts and both lists
\* have a mirror that serves tweets
SummaryWeb ==
    AggWeb(ShapeOf(<<OlderArticle, NewerArticle>>), ShapeRaises, PoolFirstUp, PoolFirstUp,
           PoolThirdUp, PoolThirdUp)

\* fetchers of nothing, of feeds, of an account, of a list and of all of them
SummaryFetchers ==
    {ThreatIntelFetcher(srcs, MAX_ARTICLES_PER_SOURCE, accounts, lists, MAX_TWEETS_PER_USER, TRUE) :
        srcs \in {<< >>, <<KrebsFeed, SchneierFeed>>},
        accounts \in {<< >>, <<Account>>},
        lists \in {<< >>, <<NasaSpec>>}}

InitSummary ==
    /\ fetcher \in SummaryFetchers
    /\ web = SummaryWeb
    /\ op = Idle
    /\ ret = NoRet
    /\ remote \in Replies
    /\ store = << >>
    /\ clock = Midnight
    /\ threads = [t \in Threads |-> IdleThread]
    /\ runs = << >>
    /\ persisted = << >>
    /\ sched = DigestScheduler(8, 0)
    /\ fired = 0

GetArticlesSummary ==
    LET articles == fetch_all_sources(fetcher).val IN
    /\ op' = [name |-> "get_articles_summary", articles |-> articles]
    /\ ret' = get_articles_summary(fetcher, articles)
    /\ UNCHANGED <<fetcher, web, appvars>>

FormatArticlesForLlm ==
    LET articles == fetch_all_sources(fetcher).val IN
    /\ op' = [name |-> "_format_articles_for_llm", articles |-> articles]
    /\ ret' = format_articles_for_llm(Summarizer, articles)
    /\ UNCHANGED <<fetcher, web, appvars>>

SummarizeArticles ==
    LET articles == fetch_all_sources(fetcher).val IN
    /\ op' = [name |-> "summarize_articles", articles |-> articles]
    /\ ret' = summarize_articles(Summarizer, articles)
    /\ UNCHANGED <<fetcher, web, appvars>>

NextSummary == GetArticlesSummary \/ FormatArticlesForLlm \/ SummarizeArticles

SpecSummary == InitSummary /\ [][NextSummary]_vars

----------------------------------------------------------------------------
(* The environment of the application: runs of generate_digest in the      *)
(* scheduler's thread and in a request thread, reads of the API between    *)
(* their steps, feeds and the remote model that come and go                *)

\* the most runs of the digest function
MaxRuns == 2

\* config.py: one feed and one account
AppFetcher ==
    ThreatIntelFetcher(<<KrebsFeed>>, MAX_ARTICLES_PER_SOURCE, <<Account>>, << >>,
                       MAX_TWEETS_PER_USER, TRUE)

\* nothing can be fetched
WebDown == AggWeb(ShapeRaises, ShapeRaises, PoolDown, PoolDown, PoolDown, PoolDown)

\* the feed serves an article and the first mirror serves the account's tweets
WebUp == AggWeb(ShapeOf(<<NewerArticle>>), ShapeRaises, PoolFirstUp, PoolDown, PoolDown, PoolDown)

AppWebs == {WebDown, WebUp}

\* the model answers with a digest, or cannot be reached
AppReplies == {Completion(<<DigestText>>), NoReply}

\* the times at which the clock may be read next: later in the same second,
\* or at the start of the next one
Later(time) ==
    {[sec |-> time.sec, usec |-> time.usec + 1], [sec |-> time.sec + 1, usec |-> 0]}

\* a name no digest has
MissingFilename == "digest_20261103_080000.json"

InitApp ==
    /\ fetcher = AppFetcher
    /\ web \in AppWebs
    /\ op = Idle
    /\ ret = NoRet
    /\ remote \in AppReplies
    /\ store = << >>
    /\ clock = Midnight
    /\ threads = [t \in Threads |-> IdleThread]
    /\ runs = << >>
    /\ persisted = << >>
    /\ sched = start(DigestScheduler(8, 0))
    /\ fired = 0

\* a feed or a mirror comes up or goes down, the remote model with it or alone
EnvironmentChanges ==
    /\ web' \in AppWebs
    /\ remote' \in AppReplies
    /\ <<web', remote'>> # <<web, remote>>
    /\ UNCHANGED <<fetcher, op, ret, store, clock, threads, runs, persisted, sched, fired>>

\* what a run was called with
Started(writable) ==
    [articles |-> fetch_all_sources(fetcher).val,
     reply    |-> remote,
     writable |-> writable,
     alone    |-> \A u \in Threads : threads[u].pc = "idle"]

\* what a run of thread t that gave r at the time leaves behind
Ran(t, time, r, started) ==
    /\ clock' = time
    /\ runs' = Append(runs, [outcome |-> r.outcome, summarized |-> r.summarized,
                             alone |-> started.alone])
    /\ IF r.outcome = "opened"
       THEN /\ store' = Put(store, r.filename, Opened(r.val, now(time)))
            /\ threads' = [threads EXCEPT ![t] = [pc |-> "writing", digest |-> r.val,
                                                  filename |-> r.filename,
                                                  started |-> started]]
            /\ UNCHANGED <<op, ret>>
       ELSE /\ op' = Merge([name |-> "generate_digest"], started)
            /\ ret' = [exc |-> r.exc, val |-> r.val, calls |-> r.calls]
            /\ UNCHANGED <<store, threads>>

\* app_with_scheduler.py lines 22-57: thread t runs generate_digest up to the
\* open of the file, or to the return when the run ends before it
GenerateDigest(t) ==
    /\ threads[t].pc = "idle"
    /\ Len(runs) < MaxRuns
    /\ \E time \in Later(clock), writable \in BOOLEAN :
          Ran(t, time, generate_digest(fetcher, time, writable), Started(writable))
    /\ UNCHANGED <<fetcher, web, remote, persisted, sched, fired>>

\* app_with_scheduler.py lines 58-60: thread t dumps its digest, closes the
\* file and returns. A text written over one another run dumped after this
\* run's open may be left with the tail of the other
WriteDigest(t) ==
    /\ threads[t].pc = "writing"
    /\ \E whole \in BOOLEAN :
          /\ whole \/ store[threads[t].filename].complete
          /\ store' = [store EXCEPT ![threads[t].filename] =
                          [@ EXCEPT !.data = threads[t].digest, !.complete = whole]]
    /\ persisted' = Append(persisted, [filename |-> threads[t].filename,
                                       digest |-> threads[t].digest])
    /\ threads' = [threads EXCEPT ![t] = IdleThread]
    /\ op' = Merge([name |-> "generate_digest"], threads[t].started)
    /\ ret' = Returned(threads[t].digest, << >>)
    /\ UNCHANGED <<fetcher, web, remote, clock, runs, sched, fired>>

ApiGetLatestDigest ==
    /\ op' = [name |-> "api_get_latest_digest"]
    /\ ret' = Returned(api_get_latest_digest(store), << >>)
    /\ UNCHANGED <<fetcher, web, appvars>>

ApiGetDigestHistory ==
    /\ op' = [name |-> "api_get_digest_history"]
    /\ ret' = Returned(api_get_digest_history(store), << >>)
    /\ UNCHANGED <<fetcher, web, appvars>>

ApiGetDigestByFilename ==
    \E filename \in DOMAIN store \cup {MissingFilename} :
        /\ op' = [name |-> "api_get_digest_by_filename", filename |-> filename]
        /\ ret' = Returned(api_get_digest_by_filename(store, filename), << >>)
        /\ UNCHANGED <<fetcher, web, appvars>>

NextApp ==
    \/ EnvironmentChanges
    \/ \E t \in Threads : GenerateDigest(t)
    \/ \E t \in Threads : WriteDigest(t)
    \/ ApiGetLatestDigest
    \/ ApiGetDigestHistory
    \/ ApiGetDigestByFilename

SpecApp == InitApp /\ [][NextApp]_vars

----------------------------------------------------------------------------
(* The environment of the scheduler: a digest function that returns or     *)
(* raises, the daily time that comes, and calls of run_now                 *)

\* the most times the daily time comes
MaxTimes == 3

\* what the digest function does when called: it returns a record, or raises
DigestOutcomes ==
    {Returned([error |-> "No articles fetched", timestamp |-> "2026-11-04T08:00:00"], << >>),
     Raised(<< >>)}

InitScheduler ==
    /\ fetcher = AppFetcher
    /\ web = WebDown
    /\ op = Idle
    /\ ret = NoRet
    /\ AtRest

\* scheduler.py lines 28-41: the job is added before scheduler.start() raises
Start ==
    /\ op' = [name |-> "start"]
    /\ sched' = start(sched)
    /\ ret' = IF sched.running THEN Raised(<< >>) ELSE Returned(None, << >>)
    /\ UNCHANGED <<fetcher, web, remote, store, clock, threads, runs, persisted, fired>>

\* scheduler.py lines 43-46
Stop ==
    /\ op' = [name |-> "stop"]
    /\ sched' = stop(sched)
    /\ ret' = IF sched.running THEN Returned(None, << >>) ELSE Raised(<< >>)
    /\ UNCHANGED <<fetcher, web, remote, store, clock, threads, runs, persisted, fired>>

\* the hour and minute of the trigger come: a running scheduler that holds
\* the job calls _run_digest in its executor
DailyTime ==
    /\ fired < MaxTimes
    /\ Len(runs) < MaxRuns + MaxTimes
    /\ fired' = fired + 1
    /\ IF sched.running /\ "daily_digest" \in sched.jobs
       THEN \E outcome \in DigestOutcomes :
               /\ runs' = Append(runs, [thread |-> "scheduler", outcome |-> Did(outcome),
                                        job |-> run_job(outcome)])
               /\ op' = [name |-> "_run_digest", raised |-> outcome.exc]
               /\ ret' = run_digest(outcome)
       ELSE UNCHANGED <<runs, op, ret>>
    /\ UNCHANGED <<fetcher, web, remote, store, clock, threads, persisted, sched>>

\* scheduler.py lines 58-61
RunNow ==
    /\ Len(runs) < MaxRuns + fired
    /\ \E outcome \in DigestOutcomes :
          /\ runs' = Append(runs, [thread |-> "request", outcome |-> Did(outcome),
                                   job |-> ""])
          /\ op' = [name |-> "run_now", raised |-> outcome.exc]
          /\ ret' = run_now(outcome)
    /\ UNCHANGED <<fetcher, web, remote, store, clock, threads, persisted, sched, fired>>

NextScheduler == Start \/ Stop \/ DailyTime \/ RunNow

SpecScheduler == InitScheduler /\ [][NextScheduler]_vars

----------------------------------------------------------------------------
(* A property of the social readers, checked under SpecReaders *)

\* the entries of mirror k the last social call keeps
KeptOf(k) == SliceTo(parse(PoolUrls[k]).entries, PoolCap)

\* C18: the items a social read returns all come from one mirror, the last one
\* it read, and are the items of all the entries kept of that mirror, which
\* did not fail: never a prefix of a mirror that raised part-way, never items
\* of two mirrors.
C18_SingleEndpoint ==
    IsSocialOp =>
        \/ ret.val = << >>
        \/ \E k \in Instances :
              /\ Len(ret.calls) = k
              /\ ~MirrorFails(PoolUrls[k])
              /\ Len(ret.val) = Len(KeptOf(k))
              /\ \A i \in DOMAIN ret.val : ret.val[i].link = KeptOf(k)[i].link

\* a mirror raised on its second entry after its first was built, and the
\* call returned the items of a later mirror only
C18_Witness ==
    /\ IsOp("fetch_user_tweets_nitter")
    /\ fetcher.max_tweets >= 2
    /\ \E k \in Instances :
          /\ k < Len(ret.calls)
          /\ Len(KeptOf(k)) = 2
          /\ Usable(KeptOf(k)[1], "published_parsed")
          /\ Unparsed(KeptOf(k)[2], "published_parsed")
    /\ ret.val # << >>
    /\ \A i \in DOMAIN ret.val : ret.val[i].link = KeptOf(Len(ret.calls))[i].link

----------------------------------------------------------------------------
(* Properties of the formatters and the summarizer, checked under          *)
(* SpecSummary                                                             *)

\* the body of an item: a feed item holds it as summary, a social item as
\* content
ItemBody(item) == IF "summary" \in DOMAIN item THEN item["summary"] ELSE item["content"]

\* the lines of the rendered text that make block i, nine lines a block after
\* the two of the heading
BlockOf(text, i) == SubSeq(text, 2 + 9 * (i - 1) + 1, 2 + 9 * i)

\* a line of the block is the label with the value after it
Holds(block, label, value) == \E j \in DOMAIN block : block[j] = label \o value

\* C11 as stated: for every aggregate, get_articles_summary returns without
\* raising one block per item, in the order of the items, and the block of an
\* item holds its title, source label, link, published value and body.
C11_RenderEveryItem ==
    IsOp("get_articles_summary") =>
        /\ ~ret.exc
        /\ Len(ret.val) = 2 + 9 * Len(op.articles)
        /\ \A i \in DOMAIN op.articles :
              /\ Holds(BlockOf(ret.val, i), "## Article " \o ToString(i) \o ": ",
                       op.articles[i].title)
              /\ Holds(BlockOf(ret.val, i), "**Source:** ", op.articles[i].source)
              /\ Holds(BlockOf(ret.val, i), "**Link:** ", op.articles[i].link)
              /\ Holds(BlockOf(ret.val, i), "**Published:** ", op.articles[i].published)
              /\ Holds(BlockOf(ret.val, i), "**Summary:** ", ItemBody(op.articles[i]))

\* C14: for every aggregate that is not empty and every answer of the remote
\* endpoint, summarize_articles returns without raising a record whose
\* article_count is the number of items and whose articles are the items.
C14_SummaryShape ==
    (IsOp("summarize_articles") /\ op.articles # << >>) =>
        /\ ~ret.exc
        /\ {"article_count", "articles"} \subseteq DOMAIN ret.val
        /\ ret.val.article_count = Len(op.articles)
        /\ ret.val.articles = op.articles

\* the model answered, inside a code block, with an object that has an
\* article_count of 99 and articles of its own; the summary is that object
\* with the count and the items of the five-item aggregate
C14_Witness ==
    /\ IsOp("summarize_articles")
    /\ Len(op.articles) = 5
    /\ remote = Completion(<<FenceJson, OwnKeysText>>)
    /\ ~ret.exc
    /\ ret.val.executive_summary = "Quiet day"
    /\ ret.val.article_count = 5
    /\ ret.val.articles = op.articles

\* C19 as stated: the text summarize_articles posts to the remote model holds,
\* for every item of the aggregate in order, the body of the item: eleven lines
\* a block after the first line of the prompt, the body the last of them.
C19_BodySubmitted ==
    (IsOp("summarize_articles") /\ op.articles # << >>) =>
        /\ Len(ret.calls) = 1
        /\ \A i \in DOMAIN op.articles :
              ret.calls[1].content[1 + 11 * i] = ItemBody(op.articles[i])

----------------------------------------------------------------------------
(* Properties of the application, checked under SpecApp *)

\* the run the last generate_digest made had nothing to summarize
ZeroItems == op.articles = << >>

\* the run had articles and the remote model could not be reached
SummarizerFailed == op.articles # << >> /\ op.reply.raises

\* the run had articles and the file could not be opened
PersistFailed == op.articles # << >> /\ ~op.writable

\* the record describes an error: under error, or in the executive_summary the
\* summarizer wrote when its call failed
CarriesError(record) ==
    \/ "error" \in DOMAIN record /\ record.error # ""
    \/ /\ "executive_summary" \in DOMAIN record
       /\ record.executive_summary
              = "Error generating summary: API request failed - Read timed out."

\* C12: generate_digest never raises; whether no item was aggregated, the
\* summarizer failed, the record could not be persisted or all went well, it
\* returns a record with a timestamp, and after each of the failures a record
\* that describes the error.
C12_RunTotal ==
    IsOp("generate_digest") =>
        /\ ~ret.exc
        /\ "timestamp" \in DOMAIN ret.val
        /\ (ZeroItems \/ SummarizerFailed \/ PersistFailed) => CarriesError(ret.val)

\* the second run of the second in which the first run wrote its record could
\* not open its file, and returned a record with the error and the time
C12_Witness ==
    /\ IsOp("generate_digest")
    /\ PersistFailed
    /\ ~SummarizerFailed
    /\ ~ret.exc
    /\ ret.val.error = "[Errno 2] No such file or directory: "
                           \o "'data/digests/digest_20261104_075959.json'"
    /\ ret.val.timestamp = "2026-11-04T07:59:59.000002"
    /\ Len(persisted) = 1

\* no run is under way
Quiet == \A t \in Threads : threads[t].pc = "idle"

\* the runs came one after the other: none began while another was writing
Sequential == \A i \in DOMAIN runs : runs[i].alone

C15_ZeroItemRun ==
    [][(Len(runs') = Len(runs) + 1 /\ fetch_all_sources(fetcher).val = << >>)
           => /\ store' = store
              /\ ~runs'[Len(runs')].summarized
              /\ op'.name = "generate_digest"
              /\ ~ret'.exc
              /\ ret'.val.error = "No articles fetched"
              /\ persisted' = persisted]_vars

\* a run found nothing to fetch after an earlier run had written a record,
\* and the store holds that record still
C15_Witness ==
    /\ IsOp("generate_digest")
    /\ ZeroItems
    /\ ret.val.error = "No articles fetched"
    /\ Len(runs) = 2
    /\ ~runs[2].summarized
    /\ Len(persisted) = 1
    /\ DOMAIN store = {persisted[1].filename}
    /\ store[persisted[1].filename] = Dumped(Opened(persisted[1].digest, now(Midnight)))

\* C16 as stated: when no run is under way, the store holds as many records as
\* runs have written, each in a file of its own and as the run wrote it.
C16_OneRecordPerRun ==
    Quiet =>
        /\ Cardinality(DOMAIN store) = Len(persisted)
        /\ \A i \in DOMAIN persisted :
              /\ persisted[i].filename \in DOMAIN store
              /\ json_load(store[persisted[i].filename]) = Returned(persisted[i].digest, << >>)

\* C17 as stated: a read of the API never answers 500, and what it answers
\* with is a record a run wrote in full.
C17_NoPartialRead ==
    (\/ IsOp("api_get_latest_digest")
     \/ IsOp("api_get_digest_history")
     \/ IsOp("api_get_digest_by_filename"))
        => ret.val.status # 500

----------------------------------------------------------------------------
(* A property of the scheduler, checked under SpecScheduler *)

\* C20: _run_digest and run_now never raise, and give None when the digest
\* function raised; a running scheduler holds the daily job; and each time the
\* daily time comes while the scheduler runs the digest function is called,
\* whatever the calls before it did.
C20_ScheduleSurvives ==
    /\ [](/\ (IsOp("_run_digest") \/ IsOp("run_now"))
               => (~ret.exc /\ (op.raised => ret.val = None))
          /\ sched.running => "daily_digest" \in sched.jobs)
    /\ [][(fired' = fired + 1 /\ sched.running)
              => /\ Len(runs') = Len(runs) + 1
                 /\ runs'[Len(runs')].thread = "scheduler"]_vars

\* the digest function raised at one daily time and was called again at the
\* next, and run_now gave None when it raised
C20_Witness ==
    /\ sched.running
    /\ fired = 2
    /\ Len(runs) = 3
    /\ runs[1] = [thread |-> "scheduler", outcome |-> "raised", job |-> "executed"]
    /\ runs[2].thread = "scheduler"
    /\ runs[3] = [thread |-> "request", outcome |-> "raised", job |-> ""]
    /\ IsOp("run_now")
    /\ ret = Returned(None, << >>)

====
